---- MODULE Spec2Model ----
(***************************************************************************)
(* OpenDACHS ticket management: TicketManager (src/src/ticket_manager.py)  *)
(* over the SQLite table (src/src/sqlite.py), the ticket rows              *)
(* (src/src/ticket.py) and the WARC files on disk.                         *)
(*                                                                         *)
(* The table is modelled by the effect of the SQL statement each           *)
(* SQLiteClient method issues; the Python logic around the statement       *)
(* (select_row, update_row) is modelled branch by branch.  Every call into *)
(* the environment (HTTP capture, SQLite, file system, docker, SMTP) may   *)
(* raise: the actions draw the failing step, if any, from a small set.     *)
(***************************************************************************)
EXTENDS Integers, Sequences, FiniteSets, TLC

\* ---------------------------------------------------------------- bounds
MaxTime == 4
MaxBatch == 2
\* largest length asked of generate_username() and generate_password()
MaxLen == 5

\* ------------------------------------------------------------- constants
\* datetime.timedelta(days=3)
Retention == 3

Ids == {"T1", "T2"}
\* results of generate_username()/generate_password()
Credentials == {"c1", "c2"}
Email == "a@b.com"
Url == "http://x"
\* data["flag"] of a ticket file; "other" stands for any unknown flag
DescriptorFlags == {"pending", "confirmed", "accepted", "denied", "other"}
Descriptors == [ticket : Ids, email : {Email}, flag : DescriptorFlags, url : {Url}]

\* Python's None where a row is expected, and the ticket that was never built
None == <<>>
NoTicket == [none |-> TRUE]

VARIABLES
    store,      \* the SQLite table: ticket id -> row
    disk,       \* the set of paths that exist on disk
    now,        \* datetime.datetime.now(), in days
    pc,         \* where manage() is: "idle", "loop", "polling", "sweep", "done",
                \* "raised"
    remote,     \* number of ticket files at the FTP drop location
    todo,       \* number of retrieved ticket files not yet processed
    expired,    \* the tickets remove_expired() has selected and not yet visited
    counter,    \* manage()'s counter dictionary
    last,       \* what the last call of a lifecycle operation did
    ret         \* the last call of a function outside manage() and what
                \* it returned

vars == <<store, disk, now, pc, remote, todo, expired, counter, last, ret>>

\* ------------------------------------------------------------------ paths
\* TmpPath, had every ticket been archived under one file name
TmpPath_shared(id) == <<"tmp/warcs", "ticket">>

\* "tmp/warcs/{}.warc".format(data["ticket"])
TmpPath(id) == <<"tmp/warcs", id>>
\* storage+"/{}.warc".format(ticket.id_), storage = "storage/{ticket}"
StoragePath(id) == <<"storage", id>>

\* ------------------------------------------------------------ credentials
\* string.ascii_letters + string.digits
alphabet ==
    <<"a", "b", "c", "d", "e", "f", "g", "h", "i", "j", "k", "l", "m",
      "n", "o", "p", "q", "r", "s", "t", "u", "v", "w", "x", "y", "z",
      "A", "B", "C", "D", "E", "F", "G", "H", "I", "J", "K", "L", "M",
      "N", "O", "P", "Q", "R", "S", "T", "U", "V", "W", "X", "Y", "Z",
      "0", "1", "2", "3", "4", "5", "6", "7", "8", "9">>

\* the default of generate_username(length=8)
DefaultUsernameLength == 8
\* the default of generate_password(length=16)
DefaultPasswordLength == 16

\* positions in alphabet that random.choice() may pick, and bytes that
\* os.urandom() may return: the first, the last and one in between
RandomChoices == {0, 26, 61}
RandomBytes == {0, 255}

\* a call that raised TicketManagerError, and one that returned a string
\* (the sequence of its characters)
Failed == [ok |-> FALSE, value |-> <<>>]
Str(chars) == [ok |-> TRUE, value |-> chars]

\* generate_username, had it refused only negative lengths
generate_username_zero(length, choices) ==
    IF length < 0 THEN Failed
    ELSE Str([i \in 1..length |-> alphabet[choices[i] + 1]])

\* generate_username, had it drawn one character too few
generate_username_short(length, choices) ==
    IF length < 1 THEN Failed
    ELSE Str([i \in 1..(length - 1) |-> alphabet[choices[i] + 1]])

\* TicketManager.generate_username; choices[i] is the position picked by the
\* i-th random.choice(alphabet)
generate_username(length, choices) ==
    IF length < 1 THEN Failed
    ELSE Str([i \in 1..length |-> alphabet[choices[i] + 1]])

\* the index of "=" in the table below
Pad == 64
\* ord() of the base64 digit of a 6-bit value: A-Z, a-z, 0-9, "+", "/", "="
B64Ord(sextet) ==
    IF sextet < 26 THEN 65 + sextet
    ELSE IF sextet < 52 THEN 97 + (sextet - 26)
    ELSE IF sextet < 62 THEN 48 + (sextet - 52)
    ELSE IF sextet = 62 THEN 43
    ELSE IF sextet = 63 THEN 47
    ELSE 61

RECURSIVE b64encode(_)
\* base64.b64encode: three bytes make four digits, the last group is padded
b64encode(bytes) ==
    IF Len(bytes) = 0 THEN <<>>
    ELSE IF Len(bytes) = 1
    THEN <<bytes[1] \div 4, (bytes[1] % 4) * 16, Pad, Pad>>
    ELSE IF Len(bytes) = 2
    THEN <<bytes[1] \div 4,
           (bytes[1] % 4) * 16 + bytes[2] \div 16,
           (bytes[2] % 16) * 4,
           Pad>>
    ELSE <<bytes[1] \div 4,
           (bytes[1] % 4) * 16 + bytes[2] \div 16,
           (bytes[2] % 16) * 4 + bytes[3] \div 64,
           bytes[3] % 64>>
         \o b64encode(SubSeq(bytes, 4, Len(bytes)))

\* TicketManager.generate_password; bytes is what os.urandom(length) returned
generate_password(length, bytes) ==
    IF length < 1 THEN Failed
    ELSE LET digits == b64encode(bytes)
         IN  Str([i \in 1..Len(digits) |->
                     alphabet[(B64Ord(digits[i]) % Len(alphabet)) + 1]])

\* ---------------------------------------------------------- Python values
\* A Python value is <<type, text, children>>: a str carries its text, a list,
\* a tuple and a dict carry their elements in order, an element of a dict is
\* an "item" carrying its key and, as its one child, its value.
PyStr(text) == <<"str", text, <<>>>>
PyInt(text) == <<"int", text, <<>>>>
PyNone == <<"NoneType", "", <<>>>>
PyList(values) == <<"list", "", values>>
PyTuple(values) == <<"tuple", "", values>>
PyItem(key, value) == <<"item", key, <<value>>>>
PyDict(items) == <<"dict", "", items>>

\* ------------------------------------------------------------------- json
\* A JSON text is <<kind, text, children>> as well: string, number, null,
\* array, object, and "member" for a name/value pair of an object.  A value
\* handed to json.loads that is no JSON text has another kind.
NotJson == <<"undecodable", "", <<>>>>
\* what json.loads raises on
JsonError == <<"JSONDecodeError", "", <<>>>>

RECURSIVE json_dumps(_)
\* json.dumps: lists and tuples both become arrays, dicts become objects
json_dumps(obj) ==
    CASE obj[1] = "str" -> <<"string", obj[2], <<>>>>
      [] obj[1] = "int" -> <<"number", obj[2], <<>>>>
      [] obj[1] = "NoneType" -> <<"null", "", <<>>>>
      [] obj[1] \in {"list", "tuple"} ->
            <<"array", "", [i \in 1..Len(obj[3]) |-> json_dumps(obj[3][i])]>>
      [] obj[1] = "dict" ->
            <<"object", "",
              [i \in 1..Len(obj[3]) |->
                  <<"member", obj[3][i][2], <<json_dumps(obj[3][i][3][1])>>>>]>>
      [] OTHER -> NotJson

RECURSIVE json_loads(_)
\* json.loads: arrays become lists, objects become dicts
json_loads(text) ==
    CASE text[1] = "string" -> PyStr(text[2])
      [] text[1] = "number" -> PyInt(text[2])
      [] text[1] = "null" -> PyNone
      [] text[1] = "array" ->
            PyList([i \in 1..Len(text[3]) |-> json_loads(text[3][i])])
      [] text[1] = "object" ->
            PyDict([i \in 1..Len(text[3]) |->
                       PyItem(text[3][i][2], json_loads(text[3][i][3][1]))])
      [] OTHER -> JsonError

\* ----------------------------------------------------------------- ticket
\* list(self.user): the fields of the namedtuple User, in order
UserList(user) ==
    PyList(<<user.username, user.role, user.password, user.email_addr>>)

\* Ticket.get_row: the row of a ticket
get_row(ticket) ==
    <<ticket.id_,
      json_dumps(UserList(ticket.user)),
      ticket.archive,
      json_dumps(ticket.metadata),
      ticket.flag,
      ticket.timestamp>>

\* the characters of the strings that occur where a list is expected
Chars(text) ==
    CASE text = "" -> <<>>
      [] text = "ab" -> <<"a", "b">>
      [] text = "abcd" -> <<"a", "b", "c", "d">>
      [] OTHER -> <<text>>

\* User(*values): the positional arguments are the elements of a list or a
\* tuple, the keys of a dict or the characters of a str; anything but four
\* of them, and a value that cannot be unpacked, is a TypeError
UserArgs(value) ==
    CASE value[1] \in {"list", "tuple"} -> value[3]
      [] value[1] = "dict" ->
            [i \in 1..Len(value[3]) |-> PyStr(value[3][i][2])]
      [] value[1] = "str" ->
            [i \in 1..Len(Chars(value[2])) |-> PyStr(Chars(value[2])[i])]
      [] OTHER -> <<>>

\* get_ticket, had it kept the decoded list instead of building a User
get_ticket_list(row) ==
    IF Len(row) < 6 THEN NoTicket
    ELSE [id_ |-> row[1],
          user |-> [username |-> json_loads(row[2]), role |-> PyNone,
                    password |-> PyNone, email_addr |-> PyNone],
          archive |-> row[3],
          metadata |-> json_loads(row[4]),
          flag |-> row[5],
          timestamp |-> row[6]]

\* Ticket.get_ticket: the ticket of a row; NoTicket when it raises TicketError
\* (row None or too short: row[i] fails; a column that json.loads cannot
\* decode; User(*...) of other than four values).  Columns after the sixth
\* are not looked at.
get_ticket(row) ==
    IF Len(row) < 6 THEN NoTicket
    ELSE IF json_loads(row[2]) = JsonError \/ json_loads(row[4]) = JsonError
    THEN NoTicket
    ELSE IF Len(UserArgs(json_loads(row[2]))) # 4 THEN NoTicket
    ELSE LET args == UserArgs(json_loads(row[2]))
         IN  [id_ |-> row[1],
              user |-> [username |-> args[1], role |-> args[2],
                        password |-> args[3], email_addr |-> args[4]],
              archive |-> row[3],
              metadata |-> json_loads(row[4]),
              flag |-> row[5],
              timestamp |-> row[6]]

\* TicketManager._initialize_user
_initialize_user(data, cred) ==
    [username |-> PyStr(cred), role |-> PyStr("archivist"),
     password |-> PyStr(cred), email_addr |-> PyStr(data.email)]

\* _initialize_ticket, had it stored the name of the mail template
_initialize_ticket_submitted(data, cred, t) ==
    [id_ |-> data.ticket,
     user |-> _initialize_user(data, cred),
     archive |-> TmpPath(data.ticket),
     metadata |-> PyDict(<<PyItem("url", PyStr(data.url))>>),
     flag |-> "submitted",
     timestamp |-> t]

\* TicketManager._initialize_ticket
_initialize_ticket(data, cred, t) ==
    [id_ |-> data.ticket,
     user |-> _initialize_user(data, cred),
     archive |-> TmpPath(data.ticket),
     metadata |-> PyDict(<<PyItem("url", PyStr(data.url))>>),
     flag |-> data.flag,
     timestamp |-> t]

\* Ticket.get_json: the JSON object of a ticket
get_json(ticket) ==
    [id |-> ticket.id_,
     user |-> UserList(ticket.user),
     archive |-> ticket.archive,
     metadata |-> ticket.metadata,
     flag |-> ticket.flag,
     timestamp |-> ticket.timestamp]

\* ------------------------------------------------------------ attachments
\* str.title() of the keys that occur in the metadata of a ticket file
Title(k) ==
    CASE k = "resourceType" -> "Resourcetype"
      [] k = "creator" -> "Creator"
      [] k = "publicationDate" -> "Publicationdate"
      [] k = "subjectHeading" -> "Subjectheading"
      [] k = "personHeading" -> "Personheading"
      [] k = "publisher" -> "Publisher"
      [] k = "title" -> "Title"
      [] k = "url" -> "Url"
      [] k = "romanization" -> "Romanization"
      [] k = "script" -> "Script"
      [] OTHER -> k

RECURSIVE Dashes(_)
\* level*"-"
Dashes(level) == IF level = 0 THEN "" ELSE "-" \o Dashes(level - 1)

\* one line of the text: level*"-", then a key and ":" or a string, then "\n"
KeyLine(level, k) == [level |-> level, text |-> Title(k), key |-> TRUE]
StrLine(level, v) == [level |-> level, text |-> v, key |-> FALSE]
LineText(line) ==
    Dashes(line.level) \o line.text \o (IF line.key THEN ":\n" ELSE "\n")

RECURSIVE JoinLines(_)
\* prettyprint += ...: the lines one after the other
JoinLines(lines) ==
    IF lines = <<>> THEN ""
    ELSE LineText(Head(lines)) \o JoinLines(Tail(lines))

RECURSIVE _prettyprint_keys(_, _)
RECURSIVE _prettyprint_keys_from(_, _, _)
\* _prettyprint_lines, had it written the key of every item
_prettyprint_keys_from(value, level, i) ==
    IF i > Len(value[3]) THEN <<>>
    ELSE (IF value[1] = "dict"
          THEN <<KeyLine(level, value[3][i][2])>>
               \o _prettyprint_keys(value[3][i][3][1], level + 1)
          ELSE _prettyprint_keys(value[3][i], level + 1))
         \o _prettyprint_keys_from(value, level, i + 1)

_prettyprint_keys(value, level) ==
    CASE value[1] \in {"dict", "list"} -> _prettyprint_keys_from(value, level, 1)
      [] value[1] = "str" ->
            IF value[2] # "" THEN <<StrLine(level, value[2])>> ELSE <<>>
      [] OTHER -> <<>>

RECURSIVE _prettyprint_lines(_, _)
RECURSIVE _prettyprint_from(_, _, _)
\* _prettyprint: the for loops over the items of a dict and the elements of
\* a list, from the i-th one on
_prettyprint_from(value, level, i) ==
    IF i > Len(value[3]) THEN <<>>
    ELSE LET v == IF value[1] = "dict"
                  THEN _prettyprint_lines(value[3][i][3][1], level + 1)
                  ELSE _prettyprint_lines(value[3][i], level + 1)
             lines == IF v = <<>> THEN <<>>
                      ELSE IF value[1] = "dict"
                      THEN <<KeyLine(level, value[3][i][2])>> \o v
                      ELSE v
         IN  lines \o _prettyprint_from(value, level, i + 1)

\* _prettyprint: the lines of the text it returns
_prettyprint_lines(value, level) ==
    CASE value[1] \in {"dict", "list"} -> _prettyprint_from(value, level, 1)
      [] value[1] = "str" ->
            IF value[2] # "" THEN <<StrLine(level, value[2])>> ELSE <<>>
      [] OTHER -> <<>>

\* TicketManager._prettyprint
_prettyprint(value, level) == JoinLines(_prettyprint_lines(value, level))

\* compose_plaintext_attachment, had it put the ticket ID in front
compose_plaintext_attachment_id(ticket) ==
    [filename |-> "info.txt",
     text |-> ticket.id_ \o "\n" \o _prettyprint(ticket.metadata, 0)]

\* TicketManager.compose_plaintext_attachment
compose_plaintext_attachment(ticket) ==
    [filename |-> "info.txt", text |-> _prettyprint(ticket.metadata, 0)]

\* what an expression evaluates to when it raises
PyRaise == <<"raise", "", <<>>>>

\* value[key]: KeyError when a dict has no such key, TypeError when value is
\* a str, a list, an int or None (key is a str)
GetItem(value, key) ==
    IF value[1] = "dict" /\ \E i \in 1..Len(value[3]) : value[3][i][2] = key
    THEN value[3][CHOOSE i \in 1..Len(value[3]) : value[3][i][2] = key][3][1]
    ELSE PyRaise

RECURSIVE PyRepr(_)
RECURSIVE PyReprFrom(_, _)
\* repr() of the elements of a list or the items of a dict from the i-th on
PyReprFrom(value, i) ==
    IF i > Len(value[3]) THEN ""
    ELSE (IF i > 1 THEN ", " ELSE "")
         \o (IF value[1] = "dict"
             THEN "'" \o value[3][i][2] \o "': " \o PyRepr(value[3][i][3][1])
             ELSE PyRepr(value[3][i]))
         \o PyReprFrom(value, i + 1)

\* repr(value)
PyRepr(value) ==
    CASE value[1] = "str" -> "'" \o value[2] \o "'"
      [] value[1] = "int" -> value[2]
      [] value[1] = "NoneType" -> "None"
      [] value[1] = "list" -> "[" \o PyReprFrom(value, 1) \o "]"
      [] value[1] = "dict" -> "{" \o PyReprFrom(value, 1) \o "}"
      [] OTHER -> "<" \o value[1] \o ">"

\* "{value}".format(value=value): the text of a str, repr() of anything else
PyFormat(value) == IF value[1] = "str" THEN value[2] ELSE PyRepr(value)

\* bool(value)
Truthy(value) ==
    CASE value[1] = "str" -> value[2] # ""
      [] value[1] = "int" -> value[2] # "0"
      [] value[1] = "NoneType" -> FALSE
      [] OTHER -> Len(value[3]) > 0

\* the values a for loop over value visits: the elements of a list, the
\* keys of a dict, the characters of a str; PyRaise where it is a TypeError
Iterate(value) ==
    CASE value[1] = "list" -> value[3]
      [] value[1] = "dict" -> [i \in 1..Len(value[3]) |-> PyStr(value[3][i][2])]
      [] value[1] = "str" ->
            [i \in 1..Len(Chars(value[2])) |-> PyStr(Chars(value[2])[i])]
      [] OTHER -> <<PyRaise>>

\* re.compile("([0-9]{4})([0-9]{2})([0-9]{2})").match(text) and its three
\* groups, for the dates that occur; <<>> where there is no match
DateMatch(text) ==
    CASE text = "20180131" -> <<"2018", "01", "31">>
      [] text = "2018013100" -> <<"2018", "01", "31">>
      [] OTHER -> <<>>

\* field.format(tag=tag, value=value): one line of the text; raises with
\* value
Field(tag, value) ==
    IF value = PyRaise THEN Failed
    ELSE Str(<<[tag |-> tag, value |-> PyFormat(value)]>>)

\* field = "{tag}  - {value}\n"
FieldText(line) == line.tag \o "  - " \o line.value \o "\n"

RECURSIVE JoinFields(_)
\* the lines one after the other
JoinFields(lines) ==
    IF lines = <<>> THEN ""
    ELSE FieldText(Head(lines)) \o JoinFields(Tail(lines))

\* text += part, unless one of the two raised
Cat(text, part) ==
    IF text.ok /\ part.ok THEN Str(text.value \o part.value) ELSE Failed

RECURSIVE RisCreators(_, _)
\* for count, creator in enumerate(ticket.metadata["creator"]), from the
\* i-th element on
RisCreators(values, i) ==
    IF i > Len(values) THEN Str(<<>>)
    ELSE Cat(IF values[i] = PyRaise THEN Failed
             ELSE Field("A" \o ToString(i - 1),
                        GetItem(values[i], "romanization")),
             RisCreators(values, i + 1))

RECURSIVE RisKeywords(_, _)
\* for keyword in ticket.metadata[key]: if keyword: ..., from the i-th
\* element on
RisKeywords(values, i) ==
    IF i > Len(values) THEN Str(<<>>)
    ELSE Cat(IF values[i] = PyRaise THEN Failed
             ELSE IF Truthy(values[i]) THEN Field("KW", values[i])
             ELSE Str(<<>>),
             RisKeywords(values, i + 1))

\* compose_ris_attachment: the branch of the loop taken for key
RisField(metadata, key) ==
    LET value == GetItem(metadata, key)
    IN  IF value = PyRaise THEN Failed
        ELSE CASE key = "resourceType" -> Field("TY", value)
               [] key = "creator" -> RisCreators(Iterate(value), 1)
               [] key = "publicationDate" ->
                     IF value[1] # "str" \/ DateMatch(value[2]) = <<>>
                     THEN Failed
                     ELSE LET match == DateMatch(value[2])
                          IN  Field("DA", PyStr(match[1] \o "/" \o match[2]
                                                \o "/" \o match[3]))
               [] key \in {"subjectHeading", "personHeading"} ->
                     RisKeywords(Iterate(value), 1)
               [] key = "publisher" ->
                     Field("PB", GetItem(value, "romanization"))
               [] key = "title" ->
                     Cat(Field("T1", GetItem(value, "romanization")),
                         IF GetItem(value, "script") = PyRaise THEN Failed
                         ELSE IF Truthy(GetItem(value, "script"))
                         THEN Field("T2", GetItem(value, "script"))
                         ELSE Str(<<>>))
               [] OTHER -> Field("UR", value)

\* the keys of the OrderedDict tags, in order
RisKeys ==
    <<"resourceType", "creator", "publicationDate", "subjectHeading",
      "personHeading", "publisher", "title", "url">>

RECURSIVE RisText(_, _)
\* compose_ris_attachment: for key, tag in tags.items(), from the i-th on
RisText(metadata, i) ==
    IF i > Len(RisKeys) THEN Str(<<>>)
    ELSE Cat(RisField(metadata, RisKeys[i]), RisText(metadata, i + 1))

\* TicketManager.compose_ris_attachment: the text of info.ris, or Failed when
\* it raises TicketManagerError
compose_ris_attachment(ticket) ==
    LET lines == RisText(ticket.metadata, 1)
    IN  IF lines.ok THEN Str(JoinFields(lines.value)) ELSE Failed

\* ------------------------------------------------------------------ mails
\* self.smtp["header_fields"]["reply_to"]
ReplyTo == PyStr("opendachs@b.com")

\* the names sendmail() has a branch for
Templates ==
    {"submitted", "confirmed", "accepted", "denied", "expired", "error"}

\* a call of sendmail() that raised, and one that sent a mail
NotSent == [ok |-> FALSE, mails |-> <<>>]
Sent(to, ticket, name, attachment) ==
    [ok |-> TRUE,
     mails |-> <<[to |-> to, subject |-> ticket.id_, template |-> name,
                  attachment |-> attachment]>>]

\* the attachment sendmail() composes for name: info.txt, info.ris or none;
\* Failed when composing it raises
Attachment(ticket, name) ==
    IF name \in {"submitted", "confirmed"}
    THEN Str(compose_plaintext_attachment(ticket).filename)
    ELSE IF name = "accepted"
    THEN IF compose_ris_attachment(ticket).ok THEN Str("info.ris") ELSE Failed
    ELSE Str("none")

\* sendmail, had it sent the error mail for a name it does not know
sendmail_default(ticket, name, fault) ==
    IF ~Attachment(ticket, name).ok \/ fault # "none" THEN NotSent
    ELSE IF name \in {"submitted", "accepted", "denied", "expired"}
    THEN Sent(ticket.user.email_addr, ticket, name,
              Attachment(ticket, name).value)
    ELSE Sent(ReplyTo, ticket, IF name \in Templates THEN name ELSE "error",
              Attachment(ticket, name).value)

\* TicketManager.sendmail.  fault: "template" when src.email.compose_body
\* raises, "smtp" when src.email.compose_msg or src.email.sendmail does
sendmail(ticket, name, fault) ==
    IF name \notin Templates THEN NotSent
    ELSE IF ~Attachment(ticket, name).ok \/ fault # "none" THEN NotSent
    ELSE IF name \in {"submitted", "accepted", "denied", "expired"}
    THEN Sent(ticket.user.email_addr, ticket, name,
              Attachment(ticket, name).value)
    ELSE Sent(ReplyTo, ticket, name, Attachment(ticket, name).value)

\* TicketManager.dump_ticket: the file it writes, tmp/json_files/<id>.json
dump_ticket(ticket) == <<ticket.id_, get_json(ticket)>>

\* ----------------------------------------------------------------- sqlite
\* a call that raised instead of returning rows
Error == <<"Error">>

\* insert, had the statement been INSERT OR REPLACE
insert_or_replace(st, row) ==
    [ok |-> TRUE,
     store |-> [id \in DOMAIN st \cup {row[1]} |->
                   IF id = row[1] THEN row ELSE st[id]]]

\* SQLiteClient.insert: INSERT INTO table VALUES (...); the ticket column is the
\* table's PRIMARY KEY, so a row whose ticket is already there is refused
insert(st, row) ==
    IF row[1] \in DOMAIN st THEN [ok |-> FALSE, store |-> st]
    ELSE [ok |-> TRUE,
          store |-> [id \in DOMAIN st \cup {row[1]} |->
                        IF id = row[1] THEN row ELSE st[id]]]

\* SQLiteClient.select_rows: SELECT * FROM table WHERE ticket = ?
select_rows(st, id) ==
    IF id \in DOMAIN st THEN <<st[id]>> ELSE <<>>

\* SQLiteClient.select_row: the row picked from the rows selected
select_row(rows) ==
    IF Len(rows) > 1 THEN Error
    ELSE IF Len(rows) # 0 THEN None
    ELSE Error  \* rows[0] of an empty list: IndexError

\* the UPDATE statement of update_rows, column1 not given:
\* UPDATE table SET flag = ?
UpdateAll(st, flag, id) ==
    [i \in DOMAIN st |-> [st[i] EXCEPT ![5] = flag]]

\* the UPDATE statement of update_rows, column1 given:
\* UPDATE table SET flag = ? WHERE ticket = ?
UpdateWhere(st, flag, id) ==
    [i \in DOMAIN st |-> IF i = id THEN [st[i] EXCEPT ![5] = flag] ELSE st[i]]

\* SQLiteClient.update_rows(column0="flag", column1="ticket"): the table after
\* the statement and the rows selected afterwards
update_rows(st, flag, id) ==
    LET st1 == UpdateWhere(st, flag, id)
    IN  [store |-> st1, rows |-> select_rows(st1, id)]

\* SQLiteClient.update_row: the row picked from the rows update_rows returns
update_row(rows) ==
    IF Len(rows) > 1 THEN Error
    ELSE IF Len(rows) = 0 THEN None
    ELSE rows[1]

\* SQLiteClient.delete: DELETE FROM table WHERE ticket = ?
delete(st, id) ==
    [i \in DOMAIN st \ {id} |-> st[i]]

\* ------------------------------------------------------------- operations
\* What a lifecycle operation leaves behind: ok is FALSE when it raised
\* TicketManagerError, and then nothing is returned.
\* dump is the JSON file the operation wrote, None when it wrote none.
Raised(st, dk) ==
    [ok |-> FALSE, store |-> st, disk |-> dk, ticket |-> NoTicket, dump |-> None]
Returned(st, dk, ticket, dump) ==
    [ok |-> TRUE, store |-> st, disk |-> dk, ticket |-> ticket, dump |-> dump]

SubmitFaults == {"capture", "capture_partial", "insert", "dump"}

\* submit, had it inserted the row before archiving the URL
submit_insert_first(st, dk, data, cred, t, fault) ==
    LET ticket == _initialize_ticket(data, cred, t)
        dk1 == dk \cup {ticket.archive}
        ins == insert(st, get_row(ticket))
    IN  IF fault = "insert" \/ ~ins.ok THEN Raised(st, dk)
        ELSE IF fault = "capture" THEN Raised(ins.store, dk)
        ELSE IF fault = "capture_partial" THEN Raised(ins.store, dk1)
        ELSE IF fault = "dump" THEN Raised(ins.store, dk1)
        ELSE Returned(ins.store, dk1, ticket, dump_ticket(ticket))

\* TicketManager.submit.  archive() captures the URL into ticket.archive: the
\* capture may raise before the WARC file is opened ("capture") or after
\* ("capture_partial"); it appends to a file that is already there.
submit(st, dk, data, cred, t, fault) ==
    LET ticket == _initialize_ticket(data, cred, t)
        dk1 == dk \cup {ticket.archive}
    IN  IF fault = "capture" THEN Raised(st, dk)
        ELSE IF fault = "capture_partial" THEN Raised(st, dk1)
        ELSE IF fault = "insert" \/ ~insert(st, get_row(ticket)).ok
             THEN Raised(st, dk1)
        ELSE IF fault = "dump" THEN Raised(insert(st, get_row(ticket)).store, dk1)
        ELSE Returned(insert(st, get_row(ticket)).store, dk1, ticket,
                      dump_ticket(ticket))

\* confirm, had it returned without a ticket when no row was updated
confirm_tolerant(st, dk, data, fault) ==
    IF fault = "update" THEN Raised(st, dk)
    ELSE LET upd == update_rows(st, data.flag, data.ticket)
             row == update_row(upd.rows)
         IN  IF fault = "select" \/ row = Error
             THEN Raised(upd.store, dk)
             ELSE Returned(upd.store, dk, get_ticket(row), None)

ConfirmFaults == {"update", "select"}

\* TicketManager.confirm
confirm(st, dk, data, fault) ==
    IF fault = "update" THEN Raised(st, dk)
    ELSE LET upd == update_rows(st, data.flag, data.ticket)
             row == update_row(upd.rows)
         IN  IF fault = "select" \/ row = Error \/ get_ticket(row) = NoTicket
             THEN Raised(upd.store, dk)
             ELSE Returned(upd.store, dk, get_ticket(row), None)

AcceptFaults == {"select", "copy", "copy_partial", "unlink", "delete", "dump"}

\* TicketManager.accept.  wr: os.access("./../webrecorder/data/warcs/<user>")
accept(st, dk, data, wr, fault) ==
    LET row == select_row(select_rows(st, data.ticket))
        ticket == get_ticket(row)
        storage == StoragePath(data.ticket)
    IN  IF fault = "select" \/ row = Error \/ ticket = NoTicket THEN Raised(st, dk)
        ELSE IF fault = "copy" \/ (wr /\ storage \in dk) \/ (~wr /\ ticket.archive \notin dk)
             THEN Raised(st, dk)
        ELSE IF fault = "copy_partial" THEN Raised(st, dk \cup {storage})
        ELSE IF fault = "unlink" \/ ticket.archive \notin dk
             THEN Raised(st, dk \cup {storage})
        ELSE LET dk2 == (dk \cup {storage}) \ {ticket.archive}
             IN  IF fault = "delete" THEN Raised(st, dk2)
                 ELSE IF fault = "dump" THEN Raised(delete(st, ticket.id_), dk2)
                 ELSE Returned(delete(st, ticket.id_), dk2,
                               [ticket EXCEPT !.flag = "deleted"],
                               dump_ticket([ticket EXCEPT !.flag = "deleted"]))

DenyFaults == {"select", "unlink", "delete", "dump"}

\* TicketManager.deny
deny(st, dk, data, fault) ==
    LET row == select_row(select_rows(st, data.ticket))
        ticket == get_ticket(row)
    IN  IF fault = "select" \/ row = Error \/ ticket = NoTicket THEN Raised(st, dk)
        ELSE IF fault = "unlink" \/ ticket.archive \notin dk THEN Raised(st, dk)
        ELSE LET dk2 == dk \ {ticket.archive}
             IN  IF fault = "delete" THEN Raised(st, dk2)
                 ELSE IF fault = "dump" THEN Raised(delete(st, ticket.id_), dk2)
                 ELSE Returned(delete(st, ticket.id_), dk2,
                               [ticket EXCEPT !.flag = "deleted"],
                               dump_ticket([ticket EXCEPT !.flag = "deleted"]))

\* ----------------------------------------------------------------- manage
\* failures after the operation returned: call_api() raising
\* TicketManagerError, sendmail() raising TicketManagerError (composing the
\* attachment) or EmailError (composing or delivering the message)
PostFaults == {"api", "mail_compose", "mail_send"}

OpFaults(flag) ==
    CASE flag = "pending" -> SubmitFaults
      [] flag = "confirmed" -> ConfirmFaults
      [] flag = "accepted" -> AcceptFaults
      [] flag = "denied" -> DenyFaults
      [] OTHER -> {}

OpName(flag) ==
    CASE flag = "pending" -> "submit"
      [] flag = "confirmed" -> "confirm"
      [] flag = "accepted" -> "accept"
      [] flag = "denied" -> "deny"
      [] OTHER -> "unknown"

\* the dispatch on data["flag"] in manage(); an unknown flag raises
Dispatch(st, dk, data, cred, t, wr, fault) ==
    CASE data.flag = "pending" -> submit(st, dk, data, cred, t, fault)
      [] data.flag = "confirmed" -> confirm(st, dk, data, fault)
      [] data.flag = "accepted" -> accept(st, dk, data, wr, fault)
      [] data.flag = "denied" -> deny(st, dk, data, fault)
      [] OTHER -> Raised(st, dk)

\* the flag variable of the loop body after the dispatch: the key of counter
\* it increments and the name of the mail template
CounterKey(flag) == IF flag = "pending" THEN "submitted" ELSE flag

\* does the loop body go on to the next file?  An operation that raised is
\* re-raised after the error mail; so is a TicketManagerError of call_api() or
\* sendmail(); an EmailError is logged, unless the error mail fails too.
Continues(ok, fault, errmail) ==
    /\ ok
    /\ \/ fault \notin PostFaults
       \/ fault = "mail_send" /\ errmail

\* the message of the TicketManagerError an operation raises, whatever failed
FailedMsg(op) ==
    CASE op = "submit" -> "failed to submit OpenDACHS ticket"
      [] op = "confirm" -> "failed to confirm OpenDACHS ticket"
      [] op = "accept" -> "failed to accept OpenDACHS ticket"
      [] op = "deny" -> "failed to deny OpenDACHS ticket"
      [] op = "expire" -> "failed to remove OpenDACHS ticket"
      [] OTHER -> "unknown flag"

\* manage(): the id of the ticket the error mail is sent for when the
\* operation raised: the local variable ticket, when an earlier pass of the
\* loop has bound it, else Ticket(data["ticket"], None, ...).  call is last:
\* the earlier pass, if any, returned a ticket, or the run would have ended.
ErrTicket(call, data) ==
    IF call.op = "none" THEN data.ticket ELSE call.id

\* sendmail(ticket, "error"): the mails it delivers
ErrMail(errmail) == IF errmail THEN <<"error">> ELSE <<>>

\* complete, had it undone the operation when the mail could not be sent
complete_rollback(st, dk, call, fault, errmail) ==
    [store |-> IF fault \in {"mail_compose", "mail_send"}
               THEN [i \in DOMAIN st \ {call.id} |-> st[i]] ELSE st,
     disk |-> dk,
     mails |-> IF fault = "none" THEN <<call.flag>> ELSE ErrMail(errmail),
     counted |-> fault = "none",
     continues |-> Continues(call.ok, fault, errmail)]

\* complete, had it counted the ticket file before the mail was sent
complete_count_always(st, dk, call, fault, errmail) ==
    [store |-> st,
     disk |-> dk,
     mails |-> IF fault = "none" THEN <<call.flag>> ELSE ErrMail(errmail),
     counted |-> fault # "api",
     continues |-> Continues(call.ok, fault, errmail)]

\* manage(): the rest of the loop body once the child of call_api() has
\* exited: the exit status, sendmail(ticket, flag), counter[flag] += 1 and
\* the except clauses.  fault "api": Popen raised or the exit status is not 0.
complete(st, dk, call, fault, errmail) ==
    [store |-> st,
     disk |-> dk,
     mails |-> IF fault = "none" THEN <<call.flag>> ELSE ErrMail(errmail),
     counted |-> fault = "none",
     continues |-> Continues(call.ok, fault, errmail)]

\* manage(): the rest of the body of the loop over remove_expired();
\* counter["removed"] is incremented before the mail, and every failure is
\* raised
complete_expired(st, dk, call, fault, errmail) ==
    [store |-> st,
     disk |-> dk,
     mails |-> IF fault = "none" THEN <<"expired">> ELSE ErrMail(errmail),
     counted |-> fault # "api",
     continues |-> fault = "none"]

ZeroCounter ==
    [submitted |-> 0, confirmed |-> 0, accepted |-> 0, denied |-> 0, removed |-> 0]

EmptyTable == [i \in {} |-> None]

\* last, before any operation of the run was called
NoCall ==
    [op |-> "none", id |-> "none", flag |-> "none", fault |-> "none",
     ok |-> TRUE, mails |-> <<>>, mailid |-> "none", err |-> "none",
     dump |-> None]

\* no function has been called
NoRet == [fn |-> "none"]

Init ==
    /\ store = EmptyTable
    /\ disk = {}
    /\ now = 0
    /\ pc = "idle"
    /\ remote = 0
    /\ todo = 0
    /\ expired = {}
    /\ counter = ZeroCounter
    /\ last = NoCall
    /\ ret = NoRet

\* a day passes between two runs of main()
Tick ==
    /\ pc = "idle"
    /\ now < MaxTime
    /\ now' = now + 1
    /\ UNCHANGED <<store, disk, pc, remote, todo, expired, counter, last, ret>>

\* the web form puts a ticket file at the FTP drop location
Deliver ==
    /\ pc = "idle"
    /\ remote < MaxBatch
    /\ remote' = remote + 1
    /\ UNCHANGED <<store, disk, now, pc, todo, expired, counter, last, ret>>

\* manage(): retrieve_files().  get_ftp_client() or nlst() raises FTPError, or
\* each listed file goes through retrieve_file(): n of them are downloaded and
\* deleted at the drop location, the others fail, are logged and stay there
StartRun ==
    /\ pc = "idle"
    /\ \E ok \in BOOLEAN :
       \E n \in IF ok THEN 0..remote ELSE {0} :
          /\ pc' = IF ok THEN "loop" ELSE "raised"
          /\ remote' = remote - n
          /\ todo' = n
    /\ UNCHANGED <<store, disk, now, expired, counter, last, ret>>

\* manage(): one pass of the loop over the ticket files, up to call_api()
\* starting its child: the dispatch and, when the operation raised, the error
\* mail and the raise
ManageFile ==
    /\ pc = "loop"
    /\ todo > 0
    /\ \E data \in Descriptors :
       \E cred \in IF data.flag = "pending" THEN Credentials ELSE {"c1"},
          wr \in IF data.flag = "accepted" THEN BOOLEAN ELSE {FALSE},
          fault \in {"none"} \cup OpFaults(data.flag) :
          LET r == Dispatch(store, disk, data, cred, now, wr, fault)
          IN  \E errmail \in IF r.ok THEN {TRUE} ELSE BOOLEAN :
                 /\ store' = r.store
                 /\ disk' = r.disk
                 /\ pc' = IF r.ok THEN "polling" ELSE "raised"
                 /\ last' = [op |-> OpName(data.flag), id |-> data.ticket,
                             flag |-> CounterKey(data.flag),
                             fault |-> fault, ok |-> r.ok,
                             mails |-> IF r.ok THEN <<>> ELSE ErrMail(errmail),
                             mailid |-> IF r.ok \/ ~errmail THEN "none"
                                        ELSE ErrTicket(last, data),
                             err |-> IF r.ok THEN "none"
                                     ELSE FailedMsg(OpName(data.flag)),
                             dump |-> r.dump]
    /\ todo' = todo - 1
    /\ UNCHANGED <<now, remote, expired, counter, ret>>

\* call_api(): child.poll() returns None and the loop goes round
Poll ==
    /\ pc = "polling"
    /\ UNCHANGED vars

\* call_api(): the child has exited; the rest of the loop body follows, in
\* the loop over the files or in the loop over remove_expired()
CallApiReturns ==
    /\ pc = "polling"
    /\ \E fault \in {"none"} \cup PostFaults :
       \E errmail \in IF fault = "none" THEN {TRUE} ELSE BOOLEAN :
          LET c == IF last.op = "expire"
                   THEN complete_expired(store, disk, last, fault, errmail)
                   ELSE complete(store, disk, last, fault, errmail)
              key == IF last.op = "expire" THEN "removed" ELSE last.flag
          IN  /\ store' = c.store
              /\ disk' = c.disk
              /\ counter' = IF c.counted THEN [counter EXCEPT ![key] = @ + 1]
                            ELSE counter
              /\ pc' = IF ~c.continues THEN "raised"
                       ELSE IF last.op = "expire" THEN "sweep" ELSE "loop"
              /\ last' = [last EXCEPT !.fault = fault, !.mails = c.mails,
                                      !.mailid = IF c.mails = <<>> THEN "none"
                                                 ELSE last.id]
    /\ UNCHANGED <<now, remote, todo, expired, ret>>

\* remove_expired(): the tickets whose timestamp is before now - 3 days
ExpiredTickets(st, t) ==
    {get_ticket(st[id]) : id \in {i \in DOMAIN st : st[i][6] < t - Retention}}

\* manage(): the loop over the files is over and the loop over
\* remove_expired() starts; the generator selects the rows, or raises
StartSweep ==
    /\ pc = "loop"
    /\ todo = 0
    /\ \E ok \in BOOLEAN :
          /\ pc' = IF ok THEN "sweep" ELSE "raised"
          /\ expired' = IF ok THEN ExpiredTickets(store, now) ELSE {}
    /\ UNCHANGED <<store, disk, now, remote, todo, counter, last, ret>>

SweepFaults == {"unlink", "delete", "dump"}

\* remove_one, had it not looked at the flag
remove_one_any_flag(st, dk, ticket, fault) ==
    IF fault = "unlink" \/ ticket.archive \notin dk
    THEN [ok |-> FALSE, yields |-> FALSE, store |-> st, disk |-> dk,
          dump |-> None]
    ELSE IF fault = "delete"
    THEN [ok |-> FALSE, yields |-> FALSE, store |-> st,
          disk |-> dk \ {ticket.archive}, dump |-> None]
    ELSE [ok |-> fault # "dump", yields |-> fault # "dump",
          store |-> delete(st, ticket.id_), disk |-> dk \ {ticket.archive},
          dump |-> IF fault = "dump" THEN None
                   ELSE dump_ticket([ticket EXCEPT !.flag = "deleted"])]

\* remove_expired(): the body of its loop for one selected ticket; yields is
\* TRUE when the ticket is handed to manage()
remove_one(st, dk, ticket, fault) ==
    IF ticket.flag # "pending"
    THEN [ok |-> TRUE, yields |-> FALSE, store |-> st, disk |-> dk,
          dump |-> None]
    ELSE IF fault = "unlink" \/ ticket.archive \notin dk
    THEN [ok |-> FALSE, yields |-> FALSE, store |-> st, disk |-> dk,
          dump |-> None]
    ELSE IF fault = "delete"
    THEN [ok |-> FALSE, yields |-> FALSE, store |-> st,
          disk |-> dk \ {ticket.archive}, dump |-> None]
    ELSE [ok |-> fault # "dump", yields |-> fault # "dump",
          store |-> delete(st, ticket.id_), disk |-> dk \ {ticket.archive},
          dump |-> IF fault = "dump" THEN None
                   ELSE dump_ticket([ticket EXCEPT !.flag = "deleted"])]

\* manage(): remove_expired() visits one selected ticket: it skips it, or
\* removes and yields it and call_api() starts its child, or raises out of
\* the for statement of manage(), where no error mail is sent
SweepTicket ==
    /\ pc = "sweep"
    /\ \E ticket \in expired :
       \E fault \in {"none"} \cup SweepFaults :
          LET r == remove_one(store, disk, ticket, fault)
          IN  /\ store' = r.store
              /\ disk' = r.disk
              /\ pc' = IF ~r.ok THEN "raised"
                       ELSE IF r.yields THEN "polling" ELSE "sweep"
              /\ expired' = expired \ {ticket}
              /\ last' = [op |-> "expire", id |-> ticket.id_,
                          flag |-> "expired", fault |-> fault,
                          ok |-> r.yields, mails |-> <<>>, mailid |-> "none",
                          err |-> IF r.ok THEN "none" ELSE FailedMsg("expire"),
                          dump |-> r.dump]
    /\ UNCHANGED <<now, remote, todo, counter, ret>>

\* manage(): remove_expired() is exhausted; the counters are logged
EndRun ==
    /\ pc = "sweep"
    /\ expired = {}
    /\ pc' = "done"
    /\ UNCHANGED <<store, disk, now, remote, todo, expired, counter, last, ret>>

\* main() exits after manage() returned or raised; the locals of the run are
\* gone and the next run starts from the table and the disk
Exit ==
    /\ pc \in {"done", "raised"}
    /\ pc' = "idle"
    /\ todo' = 0
    /\ expired' = {}
    /\ counter' = ZeroCounter
    /\ last' = NoCall
    /\ UNCHANGED <<store, disk, now, remote, ret>>

Next ==
    \/ Tick
    \/ Deliver
    \/ StartRun
    \/ ManageFile
    \/ Poll
    \/ CallApiReturns
    \/ StartSweep
    \/ SweepTicket
    \/ EndRun
    \/ Exit

Spec == Init /\ [][Next]_vars

\* a second run of main() against the same table, started while this one is
\* in its loop over remove_expired(): its confirm() of one ticket file.  Only
\* what it does to the shared table is modelled.
OtherConfirm ==
    /\ pc = "sweep"
    /\ \E id \in Ids, fault \in {"none"} \cup ConfirmFaults :
          LET data == [ticket |-> id, email |-> Email, flag |-> "confirmed",
                       url |-> Url]
              r == confirm(store, disk, data, fault)
          IN  /\ store' = r.store
              /\ disk' = r.disk
    /\ UNCHANGED <<now, pc, remote, todo, expired, counter, last, ret>>

NextConcurrent ==
    \/ Next
    \/ OtherConfirm

SpecConcurrent == Init /\ [][NextConcurrent]_vars

\* The interpreter runs manage() on: every step of the program is taken once
\* it can be.  The exit of the docker child is not a step of the program.
Fairness ==
    /\ WF_vars(StartRun)
    /\ WF_vars(ManageFile)
    /\ WF_vars(StartSweep)
    /\ WF_vars(SweepTicket)
    /\ WF_vars(EndRun)
    /\ WF_vars(Exit)

FairSpec == Spec /\ Fairness

\* ------------------------------------- repeated runs over an old ticket
\* the table and the disk MaxTime days after T1 was submitted and never
\* confirmed
ExpiryInit ==
    /\ store = insert(EmptyTable,
                      get_row(_initialize_ticket(
                          [ticket |-> "T1", email |-> Email,
                           flag |-> "pending", url |-> Url], "c1", 0))).store
    /\ disk = {TmpPath("T1")}
    /\ now = MaxTime
    /\ pc = "idle"
    /\ remote = 0
    /\ todo = 0
    /\ expired = {}
    /\ counter = ZeroCounter
    /\ last = NoCall
    /\ ret = NoRet

\* manage() raised in ftp.retrieve_files or in its loop over remove_expired(),
\* not while it processed a ticket file
SweepOrRetrievalFailed ==
    /\ pc = "raised"
    /\ ~(/\ last.op \in {"submit", "confirm", "accept", "deny", "unknown"}
         /\ ~last.ok \/ last.fault # "none")

\* the runs looked at: the retrieval and the sweep never fail, one ticket
\* file at a time is delivered, and the ticket files are about T2
ExpiryScope ==
    /\ ~SweepOrRetrievalFailed
    /\ remote <= 1
    /\ last.id \in {"none", "T2"} \/ last.op = "expire"

ExpiryNext ==
    \/ Deliver /\ ExpiryScope'
    \/ StartRun /\ ExpiryScope'
    \/ ManageFile /\ ExpiryScope'
    \/ Poll
    \/ CallApiReturns /\ ExpiryScope'
    \/ StartSweep /\ ExpiryScope'
    \/ SweepTicket /\ ExpiryScope'
    \/ EndRun
    \/ Exit

\* the statements of manage() are executed, and the child of call_api() exits
ExpiryFairness == Fairness /\ WF_vars(CallApiReturns)

ExpirySpec == ExpiryInit /\ [][ExpiryNext]_vars /\ ExpiryFairness

\* ------------------------------------------- the functions on their own
\* metadata of ticket files: none, the URL only, a full form with empty
\* fields, a full form with every field filled and values that are no
\* strings, a date that is no date, a keyword list given as one string
MetadataSamples ==
    {PyDict(<<>>),
     PyDict(<<PyItem("url", PyStr(Url))>>),
     PyDict(<<PyItem("resourceType", PyStr("web")),
              PyItem("creator",
                     PyList(<<PyDict(<<PyItem("romanization", PyStr("Li")),
                                       PyItem("script", PyStr(""))>>)>>)),
              PyItem("publicationDate", PyStr("20180131")),
              PyItem("subjectHeading", PyList(<<PyStr("ab"), PyStr("")>>)),
              PyItem("personHeading", PyList(<<>>)),
              PyItem("publisher", PyDict(<<PyItem("romanization", PyStr(""))>>)),
              PyItem("title", PyDict(<<PyItem("romanization", PyStr("T")),
                                       PyItem("script", PyStr(""))>>)),
              PyItem("url", PyStr(Url))>>),
     PyDict(<<PyItem("url", PyStr(Url)),
              PyItem("title", PyDict(<<PyItem("romanization", PyStr("T")),
                                       PyItem("script", PyStr("S"))>>)),
              PyItem("publisher", PyDict(<<PyItem("romanization", PyStr("P"))>>)),
              PyItem("personHeading", PyList(<<PyStr("Mao"), PyNone>>)),
              PyItem("subjectHeading", PyList(<<PyList(<<PyStr("ab")>>)>>)),
              PyItem("publicationDate", PyStr("2018013100")),
              PyItem("creator",
                     PyList(<<PyDict(<<PyItem("romanization", PyStr("Li"))>>),
                              PyDict(<<PyItem("romanization", PyInt("7"))>>)>>)),
              PyItem("resourceType", PyNone),
              PyItem("pages", PyInt("12"))>>),
     PyDict(<<PyItem("resourceType", PyStr("web")),
              PyItem("creator", PyList(<<>>)),
              PyItem("publicationDate", PyStr("2018"))>>),
     PyDict(<<PyItem("resourceType", PyStr("web")),
              PyItem("creator", PyStr("")),
              PyItem("publicationDate", PyStr("20180131")),
              PyItem("subjectHeading", PyStr("ab")),
              PyItem("personHeading", PyDict(<<>>)),
              PyItem("publisher", PyDict(<<PyItem("romanization", PyStr("P"))>>)),
              PyItem("title", PyDict(<<PyItem("romanization", PyStr("")),
                                       PyItem("script", PyStr("S"))>>)),
              PyItem("url", PyList(<<PyStr(Url)>>))>>)}

\* the users _initialize_user() can build, the empty username included
Users ==
    [username : {PyStr("c1"), PyStr("")}, role : {PyStr("archivist")},
     password : {PyStr("c1"), PyStr("c2")}, email_addr : {PyStr(Email)}]

\* the tickets the program can hold
Tickets ==
    UNION {[id_ : {id}, user : Users,
            archive : {TmpPath(id), StoragePath(id)},
            metadata : MetadataSamples,
            flag : {"pending", "confirmed", "deleted"},
            timestamp : 0..MaxTime] : id \in Ids}

\* the variables of manage()
runvars == <<store, disk, now, pc, remote, todo, expired, counter, last>>

\* generate_username(length), generate_username() included
CallGenerateUsername ==
    /\ ret.fn = "none"
    /\ \E length \in (-1..MaxLen) \cup {DefaultUsernameLength} :
       \E choices \in [1..length -> RandomChoices] :
          ret' = [fn |-> "generate_username", length |-> length,
                  out |-> generate_username(length, choices)]
    /\ UNCHANGED runvars

\* generate_password(length), generate_password() included
CallGeneratePassword ==
    /\ ret.fn = "none"
    /\ \E length \in (-1..MaxLen) \cup {DefaultPasswordLength} :
       \E bytes \in [1..length -> RandomBytes] :
          ret' = [fn |-> "generate_password", length |-> length,
                  out |-> generate_password(length, bytes)]
    /\ UNCHANGED runvars

\* Ticket.get_ticket(ticket.get_row())
CallGetTicket ==
    /\ ret.fn = "none"
    /\ \E ticket \in Tickets :
          ret' = [fn |-> "get_ticket", ticket |-> ticket,
                  row |-> get_row(ticket),
                  out |-> get_ticket(get_row(ticket))]
    /\ UNCHANGED runvars

\* what the second column of a row may hold: the list of a user, text that
\* is no JSON, lists of three and of five, a string, an object
UserColumns ==
    <<json_dumps(UserList(_initialize_user([email |-> Email], "c1"))),
      NotJson,
      json_dumps(PyList(<<PyStr("c1"), PyStr("archivist"), PyStr("c1")>>)),
      json_dumps(PyList(<<PyStr("c1"), PyStr("archivist"), PyStr("c1"),
                          PyStr(Email), PyStr("x")>>)),
      json_dumps(PyStr("abcd")),
      json_dumps(PyDict(<<PyItem("username", PyStr("c1")),
                          PyItem("role", PyStr("archivist")),
                          PyItem("password", PyStr("c1")),
                          PyItem("email_addr", PyStr(Email))>>)),
      json_dumps(PyInt("7"))>>

\* the largest number of columns of a row handed to get_ticket
MaxColumns == 7

\* Ticket.get_ticket(row) for rows of any length: the first columns of a
\* full row, or a full row with more columns after it
CallGetTicketRow ==
    /\ ret.fn = "none"
    /\ \E id \in Ids, n \in 0..MaxColumns, u \in 1..Len(UserColumns),
          metadata \in MetadataSamples, t \in 0..MaxTime :
          LET full == <<id, UserColumns[u], TmpPath(id), json_dumps(metadata),
                        "pending", t>>
              row == IF n <= 6 THEN SubSeq(full, 1, n)
                     ELSE full \o [i \in 1..(n - 6) |-> "extra"]
          IN  ret' = [fn |-> "get_ticket_row", row |-> row,
                      out |-> get_ticket(row)]
    /\ UNCHANGED runvars

\* the rows select_rows can hand to select_row: rows of pending tickets
SelectedRows ==
    {get_row(ticket) : ticket \in
        {t \in Tickets : /\ t.flag = "pending" /\ t.timestamp = 0
                         /\ t.archive = TmpPath(t.id_)
                         /\ t.user.password = PyStr("c1")}}

\* select_row over a query result of no row, one row and two rows
CallSelectRow ==
    /\ ret.fn = "none"
    /\ \E rows \in {<<>>} \cup {<<r>> : r \in SelectedRows}
                         \cup {<<r1, r2>> : r1, r2 \in SelectedRows} :
          ret' = [fn |-> "select_row", rows |-> rows, out |-> select_row(rows)]
    /\ UNCHANGED runvars

\* sendmail(ticket, name) for the names manage() passes and for others
CallSendmail ==
    /\ ret.fn = "none"
    /\ \E ticket \in Tickets,
          name \in Templates \cup {"pending", "other", ""},
          fault \in {"none", "template", "smtp"} :
          /\ ticket.flag = "pending" /\ ticket.timestamp = 0
          /\ ticket.archive = TmpPath(ticket.id_)
          /\ ret' = [fn |-> "sendmail", ticket |-> ticket, name |-> name,
                     fault |-> fault, out |-> sendmail(ticket, name, fault)]
    /\ UNCHANGED runvars

\* compose_plaintext_attachment and compose_ris_attachment, called for two
\* tickets that carry the same metadata
CallCompose ==
    /\ ret.fn = "none"
    /\ \E a \in Tickets, b \in Tickets :
          /\ a.metadata = b.metadata
          /\ a.flag = "pending" /\ a.archive = TmpPath(a.id_)
          /\ a.timestamp \in {0, MaxTime} /\ b.timestamp \in {0, MaxTime}
          /\ b.flag \in {"pending", "confirmed"}
          /\ b.archive = StoragePath(b.id_)
          /\ a.user.password = b.user.password
          /\ ret' = [fn |-> "compose", a |-> a, b |-> b,
                     lines_a |-> _prettyprint_lines(a.metadata, 0),
                     plain_a |-> compose_plaintext_attachment(a),
                     plain_b |-> compose_plaintext_attachment(b),
                     rislines_a |-> RisText(a.metadata, 1),
                     ris_a |-> compose_ris_attachment(a),
                     ris_b |-> compose_ris_attachment(b)]
    /\ UNCHANGED runvars

\* the caller takes the result
Return ==
    /\ ret.fn # "none"
    /\ ret' = NoRet
    /\ UNCHANGED runvars

NextPure ==
    \/ CallGenerateUsername
    \/ CallGeneratePassword
    \/ CallGetTicket
    \/ CallGetTicketRow
    \/ CallCompose
    \/ CallSendmail
    \/ CallSelectRow
    \/ Return

SpecPure == Init /\ [][NextPure]_vars

\* ----------------------------------------------------------------- claims
\* a step of ManageFile: one ticket file was dispatched
Managed == pc = "loop" /\ todo' = todo - 1

LoopOps == {"submit", "confirm", "accept", "deny"}

C2_Pairing ==
    \A id \in Ids : id \in DOMAIN store <=> TmpPath(id) \in disk

C5_CaptureFailureNoInsert ==
    [][(Managed /\ last'.op = "submit"
        /\ last'.fault \in {"capture", "capture_partial"})
       => (store' = store /\ ~last'.ok)]_vars

C5_Witness ==
    /\ last.op = "submit"
    /\ last.fault \in {"capture", "capture_partial"}
    /\ ~last.ok
    /\ last.id \notin DOMAIN store

\* C6: an operation that fails for one ticket file does not abort the run; the
\* files after it are still dispatched.
C6_Isolation ==
    (last.op \in LoopOps /\ ~last.ok) => pc # "raised"

\* C7: the sweep removes a row only if its timestamp is more than 3 days old
\* and its flag is not 'confirmed', and a sweep that ran to its end has left
\* no row that is that old and still 'pending'.
Old(row, t) == row[6] < t - Retention

Completed == pc = "polling" /\ pc' # "polling"

C13_DeleteAfterProcessing ==
    [][remote' < remote => todo' = 0]_vars

\* C14: a run whose retrieval succeeded goes on to the sweep: no pass of the
\* loop over the files ends the run, whether the file failed or not, and the
\* sweep starts only when no file is left.
C14_SweepAfterBatch ==
    /\ [](pc = "sweep" => todo = 0)
    /\ [][(Managed \/ (Completed /\ last.op \in LoopOps))
          => pc' \in {"loop", "polling"}]_vars

C16_UnknownTicket ==
    [][(/\ Managed
        /\ last'.op \in {"confirm", "accept", "deny"}
        /\ last'.id \notin DOMAIN store)
       => (~last'.ok /\ store' = store /\ disk' = disk)]_vars

C16_Witness ==
    /\ last.op = "confirm"
    /\ last.fault = "none"
    /\ ~last.ok
    /\ last.id \notin DOMAIN store
    /\ \E id \in DOMAIN store : TmpPath(id) \in disk

Outcomes == {"submitted", "confirmed", "accepted", "denied"}

C26_RoundTrip ==
    ret.fn = "get_ticket" =>
        /\ ret.out # NoTicket
        /\ ret.out.id_ = ret.ticket.id_
        /\ ret.out.user = ret.ticket.user
        /\ ret.out.archive = ret.ticket.archive
        /\ ret.out.metadata = ret.ticket.metadata
        /\ ret.out.flag = ret.ticket.flag
        /\ ret.out.timestamp = ret.ticket.timestamp

C26_Witness ==
    /\ ret.fn = "get_ticket"
    /\ Len(ret.ticket.metadata[3]) = 9
    /\ ret.ticket.user.username = PyStr("")
    /\ ret.row[2][1] = "array"
    /\ ret.row[4][1] = "object"
    /\ ret.out.metadata[1] = "dict"

\* the characters of [A-Za-z0-9]
AlphaNum ==
    {"a", "b", "c", "d", "e", "f", "g", "h", "i", "j", "k", "l", "m",
     "n", "o", "p", "q", "r", "s", "t", "u", "v", "w", "x", "y", "z",
     "A", "B", "C", "D", "E", "F", "G", "H", "I", "J", "K", "L", "M",
     "N", "O", "P", "Q", "R", "S", "T", "U", "V", "W", "X", "Y", "Z",
     "0", "1", "2", "3", "4", "5", "6", "7", "8", "9"}

\* C27: generate_username(n) with n >= 1 returns n characters, each a letter
\* or a digit; without an argument n is 8.
C27_UsernameLength ==
    (ret.fn = "generate_username" /\ ret.length >= 1) =>
        /\ ret.out.ok
        /\ Len(ret.out.value) = ret.length
        /\ \A i \in 1..Len(ret.out.value) : ret.out.value[i] \in AlphaNum

C27_Witness ==
    /\ ret.fn = "generate_username"
    /\ ret.length = DefaultUsernameLength
    /\ ret.out.ok
    /\ ret.out.value[1] = "a"
    /\ ret.out.value[DefaultUsernameLength] = "9"

\* C28: generate_password(n) with n >= 1 returns n characters, each a letter
\* or a digit; without an argument n is 16.
C28_PasswordLength ==
    (ret.fn = "generate_password" /\ ret.length >= 1) =>
        /\ ret.out.ok
        /\ Len(ret.out.value) = ret.length
        /\ \A i \in 1..Len(ret.out.value) : ret.out.value[i] \in AlphaNum

\* C29: generate_username(n) and generate_password(n) with n <= 0 raise and
\* return no string.
C29_InvalidLength ==
    (ret.fn \in {"generate_username", "generate_password"} /\ ret.length <= 0)
        => (~ret.out.ok /\ ret.out.value = <<>>)

C29_Witness ==
    /\ ret.fn = "generate_username"
    /\ ret.length = 0
    /\ ~ret.out.ok

\* C30: for two tickets with the same metadata, whatever their id, user,
\* archive, flag and timestamp, info.txt has the same text and info.ris has
\* the same text, or fails for both.
C30_Deterministic ==
    (ret.fn = "compose" /\ ret.a.metadata = ret.b.metadata) =>
        /\ ret.plain_a = ret.plain_b
        /\ ret.ris_a = ret.ris_b

C30_Witness ==
    /\ ret.fn = "compose"
    /\ ret.a.id_ # ret.b.id_
    /\ ret.a.user # ret.b.user
    /\ ret.a.flag # ret.b.flag
    /\ ret.a.timestamp # ret.b.timestamp
    /\ ret.plain_a.text # ""
    /\ ret.ris_a.ok
    /\ ret.ris_a.value # ""

RECURSIVE OnlyStructures(_)
\* value is built of dicts, lists and strings only
OnlyStructures(value) ==
    CASE value[1] = "str" -> TRUE
      [] value[1] = "list" ->
            \A i \in 1..Len(value[3]) : OnlyStructures(value[3][i])
      [] value[1] = "dict" ->
            \A i \in 1..Len(value[3]) : OnlyStructures(value[3][i][3][1])
      [] OTHER -> FALSE

RECURSIVE Filled(_)
RECURSIVE FilledFrom(_, _)
\* the number of lines that the values which are not empty ask for: one for
\* a string that is not empty, and one for a key whose value asks for any
FilledFrom(value, i) ==
    IF i > Len(value[3]) THEN 0
    ELSE (IF value[1] = "list" THEN Filled(value[3][i])
          ELSE IF Filled(value[3][i][3][1]) = 0 THEN 0
          ELSE 1 + Filled(value[3][i][3][1]))
         + FilledFrom(value, i + 1)

Filled(value) ==
    CASE value[1] = "str" -> IF value[2] = "" THEN 0 ELSE 1
      [] OTHER -> FilledFrom(value, 1)

\* C31: for metadata of dicts, lists and strings the text of info.txt has no
\* line without content, every key line is followed by a line of its value,
\* and there are as many lines as the values that are not empty ask for: an
\* empty string, list or dict gives no line, and neither does its key.
C31_OmitsEmpty ==
    (ret.fn = "compose" /\ OnlyStructures(ret.a.metadata)) =>
        /\ ret.plain_a.text = JoinLines(ret.lines_a)
        /\ \A i \in 1..Len(ret.lines_a) :
              /\ ret.lines_a[i].text # ""
              /\ ret.lines_a[i].key =>
                    /\ i < Len(ret.lines_a)
                    /\ ret.lines_a[i + 1].level > ret.lines_a[i].level
        /\ Len(ret.lines_a) = Filled(ret.a.metadata)

C31_Witness ==
    /\ ret.fn = "compose"
    /\ OnlyStructures(ret.a.metadata)
    /\ GetItem(ret.a.metadata, "personHeading") = PyList(<<>>)
    /\ GetItem(ret.a.metadata, "publisher")
          = PyDict(<<PyItem("romanization", PyStr(""))>>)
    /\ GetItem(ret.a.metadata, "subjectHeading")
          = PyList(<<PyStr("ab"), PyStr("")>>)
    /\ Len(ret.lines_a) = 14

\* C32: no line of info.ris has an empty value after its tag.
C32_NoEmptyTag ==
    (ret.fn = "compose" /\ ret.rislines_a.ok) =>
        /\ ret.ris_a = Str(JoinFields(ret.rislines_a.value))
        /\ \A i \in 1..Len(ret.rislines_a.value) :
              ret.rislines_a.value[i].value # ""

\* C33: get_ticket raises for every row that has not exactly six columns,
\* and for every row whose second column json.loads cannot decode.
C33_MalformedRow ==
    (/\ ret.fn = "get_ticket_row"
     /\ \/ Len(ret.row) # 6
        \/ json_loads(ret.row[2]) = JsonError)
        => ret.out = NoTicket

C36_UnknownFlag ==
    [][(Managed /\ last'.op = "unknown")
       => (/\ store' = store
           /\ disk' = disk
           /\ counter' = counter
           /\ pc' # "raised")]_vars

\* a row that was never confirmed and is older than the retention window
Expirable(id) ==
    /\ id \in DOMAIN store
    /\ store[id][5] = "pending"
    /\ store[id][6] < now - Retention

C38_UnknownTemplate ==
    (/\ ret.fn = "sendmail"
     /\ ret.name \notin {"submitted", "confirmed", "accepted", "denied",
                         "expired", "error"})
        => (~ret.out.ok /\ ret.out.mails = <<>>)

C38_Witness ==
    /\ ret.fn = "sendmail"
    /\ ret.name = "pending"
    /\ ret.fault = "none"
    /\ ~ret.out.ok
    /\ ret.out.mails = <<>>

\* C39: select_row returns the row when exactly one row matches, None when
\* no row matches, and raises when more than one row matches.
C39_SelectRow ==
    ret.fn = "select_row"
        => /\ Len(ret.rows) = 1 => ret.out = ret.rows[1]
           /\ Len(ret.rows) = 0 => ret.out = None
           /\ Len(ret.rows) > 1 => ret.out = Error

====
